---- MODULE Spec2Model ----
(***************************************************************************)
(* Model of the two exercise scripts of the repository:                    *)
(*   labs/08/ddpg.py            (DDPG agent, replay buffer, OU noise)      *)
(*   labs/14/memory_game.tf.py  (memory-game agent)                        *)
(*                                                                         *)
(* Both scripts are templates.  A placeholder that is a whole method body  *)
(* raises NotImplementedError; the placeholders inside main are comments   *)
(* or `action = ...` assignments.  The model follows the source verbatim   *)
(* and adds, as inputs, the two ways a placeholder can be met:             *)
(*   ctorFilled = FALSE  the DDPG Network class exactly as in the source   *)
(*                       (its constructor raises);                         *)
(*   ctorFilled = TRUE   a Network whose constructor returns, so that the  *)
(*                       loop of main (lines 107-151) is executed.  The    *)
(*                       methods train, predict_actions, predict_values    *)
(*                       stay as in the source (they raise).               *)
(* At a TODO site of main the step either does what the source line does   *)
(* or makes one of the calls the TODO comment names.                       *)
(*                                                                         *)
(* wrappers.ReplayBuffer and the environments are not part of the sources  *)
(* at hand; they are modelled from the written specification.              *)
(*                                                                         *)
(* Real numbers are fixed-point integers; theta is ThetaNum / ThetaDen.    *)
(***************************************************************************)
EXTENDS Integers, Sequences, FiniteSets, TLC

VARIABLES
    script,            \* "ddpg", "memory" (which main runs) or "noise" (direct use of the noise class)
    pc,                \* position in main
    err,               \* the exception that ended the process, "none" while running
    call,              \* the call made by the most recent step, "-" if none
    ctorFilled,        \* whether the DDPG Network constructor body has been filled in
    batch_size,        \* args.batch_size
    evaluate_each,     \* args.evaluate_each
    evaluate_for,      \* args.evaluate_for
    theta,             \* args.noise_theta, numerator over ThetaDen
    max_length,        \* ReplayBuffer max_length, None when not passed
    training,          \* main: training
    trainEp,           \* main: index of the `for _ in range(evaluate_each)` loop
    evalEp,            \* main: index of the `for _ in range(evaluate_for)` comprehension
    done,              \* main / evaluate_episode: done
    start_evaluation,  \* argument of the running evaluate_episode
    action,            \* "unset", "Ellipsis" (the placeholder value) or "value"
    buffer,            \* replay_buffer, oldest transition first
    nextId,            \* label of the next transition (labels are cyclic)
    batch,             \* main: batch (<<>> while unbound)
    heap,              \* numpy arrays by address (<<>> = free)
    muRef,             \* noise.mu
    stateRef,          \* noise.state
    heldRef,           \* array a caller of noise.sample() kept, 0 if none
    mu0,               \* the mean passed to OrnsteinUhlenbeckNoise
    online,            \* online actor/critic parameters (one scalar stands for all)
    target,            \* target actor/critic parameters
    cards,             \* args.cards
    hidden_layer,      \* args.hidden_layer
    memory_cells,      \* args.memory_cells
    memory_cell_size   \* args.memory_cell_size

vars == <<script, pc, err, call, ctorFilled, batch_size, evaluate_each, evaluate_for,
          theta, max_length, training, trainEp, evalEp, done, start_evaluation, action,
          buffer, nextId, batch, heap, muRef, stateRef, heldRef, mu0, online, target,
          cards, hidden_layer, memory_cells, memory_cell_size>>

argVars    == <<script, ctorFilled, batch_size, evaluate_each, evaluate_for, theta,
                max_length, mu0>>
memoryVars == <<cards, hidden_layer, memory_cells, memory_cell_size>>
noiseVars  == <<heap, muRef, stateRef, heldRef>>
netVars    == <<online, target>>
bufferVars == <<buffer, nextId, batch>>
loopVars   == <<training, trainEp, evalEp, done, start_evaluation, action>>

----------------------------------------------------------------------------
(* Bounds of the model *)

MaxBatch == 1          \* --batch_size is 1..MaxBatch, or left at its default
MaxEpisodes == 2       \* --evaluate_each and --evaluate_for are 1..MaxEpisodes
MaxLength == 4         \* a max_length passed to ReplayBuffer is 1 or MaxLength
MaxVal == 1            \* array elements stay within -MaxVal..MaxVal

MaxBuf == 4 * MaxBatch + 1    \* an unbounded buffer is followed up to this length
IdMod == MaxBuf + MaxLength + 1    \* transition labels are 0..IdMod-1, cyclic

(* Python values that are not integers *)
Ellipsis == -1         \* the `...` object
None == -2             \* None

ThetaDen == 2
Thetas == 0..ThetaDen
NormalDraws == -1..1   \* np.random.normal(scale=sigma), in fixed point
Values == -MaxVal..MaxVal
Addrs == 1..3
Shapes == 1..2         \* the shapes a noise object is constructed with

(* Command lines of the memory game *)
CardCounts == {2, 4, 6}         \* --cards
HiddenLayers == {16, 32}        \* --hidden_layer, when given
MemoryCells == {4, 8}           \* --memory_cells, when given
MemoryCellSizes == {3, 6, 9}    \* --memory_cell_size, when given

----------------------------------------------------------------------------
(* wrappers.ReplayBuffer: an ordered collection with an optional maximum   *)
(* length; append evicts the oldest entry once full; sample draws a random *)
(* subset and leaves the buffer alone.                                     *)

\* append that never evicts
ReplayBufferAppendNoEvict(buf, maxlen, item) == Append(buf, item)

ReplayBufferAppend(buf, maxlen, item) ==
    IF maxlen # None /\ Len(buf) >= maxlen
    THEN Append(Tail(buf), item)
    ELSE Append(buf, item)

InjectiveIdx(n, size) ==
    {f \in [1..size -> 1..n] : \A i, j \in 1..size : i # j => f[i] # f[j]}

\* every batch sample(size) can return
ReplayBufferSample(buf, size) ==
    {[i \in 1..size |-> buf[f[i]]] : f \in InjectiveIdx(Len(buf), size)}

----------------------------------------------------------------------------
(* OrnsteinUhlenbeckNoise.  Arrays live on a heap, so that `self.state`    *)
(* and an array handed to a caller can be the same object.                 *)

Ones(shape, m) == [i \in 1..shape |-> m]

FreeAddr(used) == CHOOSE a \in Addrs \ used : \A b \in Addrs \ used : a <= b

Release(h, old, live) == IF old \in Addrs \ live THEN [h EXCEPT ![old] = <<>>] ELSE h

\* self.state = self.mu  (the copy forgotten)
NoiseResetNoCopy(h, mu, st, held) ==
    [heap |-> Release(h, st, {mu, held}), stateRef |-> mu]

\* reset(): self.state = np.copy(self.mu)
NoiseReset(h, mu, st, held) ==
    LET a == FreeAddr({mu, held})
    IN  [heap |-> Release([h EXCEPT ![a] = h[mu]], st, {a, mu, held}), stateRef |-> a]

\* __init__: self.mu = mu * np.ones(shape); self.reset()
NoiseInit(shape, m) ==
    LET h0 == [a \in Addrs |-> IF a = 1 THEN Ones(shape, m) ELSE <<>>]
        r  == NoiseReset(h0, 1, 0, 0)
    IN  [heap |-> r.heap, muRef |-> 1, stateRef |-> r.stateRef]

\* the array sample() leaves in self.state, for the normal draw n
NoiseSampled(h, mu, st, th, n) ==
    [i \in DOMAIN h[st] |-> h[st][i] + (th * (h[mu][i] - h[st][i])) \div ThetaDen + n[i]]

\* sample(): self.state += ... (in place); returns self.state
NoiseSample(h, mu, st, th, n) == [h EXCEPT ![st] = NoiseSampled(h, mu, st, th, n)]

InRange(arr) == \A i \in DOMAIN arr : arr[i] \in Values

----------------------------------------------------------------------------
(* The placeholders of the two Network classes: the exception each raises, *)
(* "none" when the body returns.                                           *)

DDPGNetworkInitReturns(filled) == "none"

DDPGNetworkInit(filled) == IF filled THEN "none" ELSE "NotImplementedError"

NetworkTrain == "NotImplementedError"

NetworkPredictActions == "NotImplementedError"

NetworkPredictValues == "NotImplementedError"

\* sum(env.observation_space.nvec): a (card, symbol) pair, cards // 2 symbols
NvecSum(c) == c + c \div 2

\* memory-game Network.__init__: no raise statement; the last TODO leaves
\* updated_memory and policy undefined when keras.Model is called.  keras.Input
\* may reject a shape that holds the `...` object before that.
MemoryNetworkInit(cells, cellSize) ==
    IF cells = Ellipsis \/ cellSize = Ellipsis
    THEN {"ValueError", "NameError"}
    ELSE {"NameError"}

----------------------------------------------------------------------------
(* ddpg.py: main *)

Halt(e, c) == /\ err' = e
              /\ call' = c
              /\ pc' = "halt"

\* line 105: network = Network(env, args)
ConstructNetwork ==
    /\ pc = "construct"
    /\ call' = "Network.__init__"
    /\ err' = DDPGNetworkInit(ctorFilled)
    /\ pc' = IF err' = "none" THEN "create" ELSE "halt"
    /\ \E p \in 0..1 : online' = p /\ target' = p      \* target = copy.deepcopy(online)
    /\ UNCHANGED <<argVars, memoryVars, noiseVars, bufferVars, loopVars>>

\* lines 108-122: replay_buffer = ReplayBuffer(); noise = OrnsteinUhlenbeckNoise(...); training = True
CreateBufferAndNoise ==
    /\ pc = "create"
    /\ buffer' = <<>>
    /\ LET n == NoiseInit(1, mu0)
       IN  /\ heap' = n.heap
           /\ muRef' = n.muRef
           /\ stateRef' = n.stateRef
    /\ training' = TRUE
    /\ call' = "OrnsteinUhlenbeckNoise.__init__"
    /\ pc' = "while_training"
    /\ UNCHANGED <<err, argVars, memoryVars, netVars, heldRef, nextId, batch,
                   trainEp, evalEp, done, start_evaluation, action>>

\* line 123: while training:   (line 150 once the loop is left)
WhileTraining ==
    /\ pc = "while_training"
    /\ IF training
       THEN pc' = "train_for" /\ trainEp' = 0 /\ UNCHANGED start_evaluation
       ELSE pc' = "e_env_reset" /\ start_evaluation' = TRUE /\ UNCHANGED trainEp
    /\ call' = "-"
    /\ UNCHANGED <<err, argVars, memoryVars, netVars, noiseVars, bufferVars,
                   training, evalEp, done, action>>

\* line 125: for _ in range(args.evaluate_each)
TrainFor ==
    /\ pc = "train_for"
    /\ IF trainEp < evaluate_each
       THEN pc' = "t_env_reset" /\ UNCHANGED evalEp
       ELSE pc' = "eval_for" /\ evalEp' = 0
    /\ call' = "-"
    /\ UNCHANGED <<err, argVars, memoryVars, netVars, noiseVars, bufferVars,
                   training, trainEp, done, start_evaluation, action>>

\* line 126: state, done = env.reset()[0], False
TrainEnvReset ==
    /\ pc = "t_env_reset"
    /\ done' = FALSE
    /\ call' = "env.reset"
    /\ pc' = "t_noise_reset"
    /\ UNCHANGED <<err, argVars, memoryVars, netVars, noiseVars, bufferVars,
                   training, trainEp, evalEp, start_evaluation, action>>

\* line 127 left out
TrainNoiseResetSkipped ==
    /\ pc = "t_noise_reset"
    /\ call' = "-"
    /\ pc' = "t_while"
    /\ UNCHANGED <<err, argVars, memoryVars, netVars, noiseVars, bufferVars, loopVars>>

\* line 127: noise.reset()
TrainNoiseReset ==
    /\ pc = "t_noise_reset"
    /\ LET r == NoiseReset(heap, muRef, stateRef, heldRef)
       IN  heap' = r.heap /\ stateRef' = r.stateRef
    /\ call' = "noise.reset"
    /\ pc' = "t_while"
    /\ UNCHANGED <<err, argVars, memoryVars, netVars, muRef, heldRef, bufferVars, loopVars>>

\* line 128: while not done
TrainWhile ==
    /\ pc = "t_while"
    /\ IF done
       THEN pc' = "train_for" /\ trainEp' = trainEp + 1
       ELSE pc' = "t_action" /\ UNCHANGED trainEp
    /\ call' = "-"
    /\ UNCHANGED <<err, argVars, memoryVars, netVars, noiseVars, bufferVars,
                   training, evalEp, done, start_evaluation, action>>

\* lines 129-132: action = ...   (TODO: network.predict_actions plus the noise)
TrainAction ==
    /\ pc = "t_action"
    /\ \E todo \in {"verbatim", "predict_actions", "noise.sample"} :
         CASE todo = "verbatim" ->
                /\ action' = "Ellipsis"
                /\ call' = "-"
                /\ pc' = "t_step"
                /\ UNCHANGED <<err, heap>>
           [] todo = "predict_actions" ->
                /\ Halt(NetworkPredictActions, "predict_actions")
                /\ UNCHANGED <<action, heap>>
           [] todo = "noise.sample" ->
                /\ \E n \in [DOMAIN heap[stateRef] -> NormalDraws] :
                     /\ InRange(NoiseSampled(heap, muRef, stateRef, theta, n))
                     /\ heap' = NoiseSample(heap, muRef, stateRef, theta, n)
                /\ action' = "value"
                /\ call' = "noise.sample"
                /\ pc' = "t_step"
                /\ UNCHANGED err
    /\ UNCHANGED <<argVars, memoryVars, netVars, muRef, stateRef, heldRef, bufferVars,
                   training, trainEp, evalEp, done, start_evaluation>>

\* lines 134-137: env.step(action); replay_buffer.append(Transition(...)); state = next_state
TrainStep ==
    /\ pc = "t_step"
    /\ max_length # None \/ Len(buffer) < MaxBuf
    /\ \E d \in BOOLEAN : done' = d
    /\ buffer' = ReplayBufferAppend(buffer, max_length, nextId)
    /\ nextId' = (nextId + 1) % IdMod
    /\ call' = "replay_buffer.append"
    /\ pc' = "t_check"
    /\ UNCHANGED <<err, argVars, memoryVars, netVars, noiseVars, batch,
                   training, trainEp, evalEp, start_evaluation, action>>

\* the size test against batch_size instead of 4 * batch_size
WarmupShort(len, bs) == len < bs

\* line 139: len(replay_buffer) < 4 * args.batch_size
Warmup(len, bs) == len < 4 * bs

\* lines 139-140: if len(replay_buffer) < 4 * args.batch_size: continue
TrainCheck ==
    /\ pc = "t_check"
    /\ IF batch_size = Ellipsis
       THEN Halt("TypeError", "-")
       ELSE /\ pc' = IF Warmup(Len(buffer), batch_size) THEN "t_while" ELSE "t_sample"
            /\ call' = "-"
            /\ UNCHANGED err
    /\ UNCHANGED <<argVars, memoryVars, netVars, noiseVars, bufferVars, loopVars>>

\* the batch drawn with the warm-up size, sample(4 * args.batch_size)
TrainSampleWarmupSize ==
    /\ pc = "t_sample"
    /\ batch' \in ReplayBufferSample(buffer, 4 * batch_size)
    /\ call' = "replay_buffer.sample"
    /\ pc' = "t_train"
    /\ UNCHANGED <<err, argVars, memoryVars, netVars, noiseVars, buffer, nextId, loopVars>>

\* lines 141-142: batch = replay_buffer.sample(args.batch_size, np.random)
TrainSample ==
    /\ pc = "t_sample"
    /\ IF ReplayBufferSample(buffer, batch_size) = {}
       THEN Halt("ValueError", "replay_buffer.sample") /\ UNCHANGED batch
       ELSE /\ batch' \in ReplayBufferSample(buffer, batch_size)
            /\ call' = "replay_buffer.sample"
            /\ pc' = "t_train"
            /\ UNCHANGED err
    /\ UNCHANGED <<argVars, memoryVars, netVars, noiseVars, buffer, nextId, loopVars>>

\* line 143: TODO: Perform the training
TrainPerform ==
    /\ pc = "t_train"
    /\ \E todo \in {"verbatim", "predict_values", "train"} :
         CASE todo = "verbatim" ->
                /\ call' = "-"
                /\ pc' = "t_while"
                /\ UNCHANGED err
           [] todo = "predict_values" -> Halt(NetworkPredictValues, "predict_values")
           [] todo = "train" -> Halt(NetworkTrain, "train")
    /\ UNCHANGED <<argVars, memoryVars, netVars, noiseVars, bufferVars, loopVars>>

\* lines 146-147: [evaluate_episode(logging=False) for _ in range(args.evaluate_for)]; print
EvalFor ==
    /\ pc = "eval_for"
    /\ IF evalEp < evaluate_for
       THEN pc' = "e_env_reset" /\ start_evaluation' = FALSE
       ELSE pc' = "while_training" /\ UNCHANGED start_evaluation
    /\ call' = "-"
    /\ UNCHANGED <<err, argVars, memoryVars, netVars, noiseVars, bufferVars,
                   training, trainEp, evalEp, done, action>>

\* line 112: rewards, state, done = 0, env.reset(start_evaluation=..., logging=...)[0], False
EvalEnvReset ==
    /\ pc = "e_env_reset"
    /\ done' = FALSE
    /\ call' = "env.reset"
    /\ pc' = "e_while"
    /\ UNCHANGED <<err, argVars, memoryVars, netVars, noiseVars, bufferVars,
                   training, trainEp, evalEp, start_evaluation, action>>

\* lines 113, 119: while not done / return rewards  (line 151 repeats the call)
EvalWhile ==
    /\ pc = "e_while"
    /\ IF ~done
       THEN pc' = "e_action" /\ UNCHANGED evalEp
       ELSE IF start_evaluation
            THEN pc' = "e_env_reset" /\ UNCHANGED evalEp
            ELSE pc' = "eval_for" /\ evalEp' = evalEp + 1
    /\ call' = "-"
    /\ UNCHANGED <<err, argVars, memoryVars, netVars, noiseVars, bufferVars,
                   training, trainEp, done, start_evaluation, action>>

\* the evaluation placeholder filled like the training one, noise included
EvalActionNoisy ==
    /\ pc = "e_action"
    /\ \E n \in [DOMAIN heap[stateRef] -> NormalDraws] :
         /\ InRange(NoiseSampled(heap, muRef, stateRef, theta, n))
         /\ heap' = NoiseSample(heap, muRef, stateRef, theta, n)
    /\ action' = "value"
    /\ call' = "noise.sample"
    /\ pc' = "e_step"
    /\ UNCHANGED <<err, argVars, memoryVars, netVars, muRef, stateRef, heldRef, bufferVars,
                   training, trainEp, evalEp, done, start_evaluation>>

\* lines 114-115: action = ...   (TODO: network.predict_actions)
EvalAction ==
    /\ pc = "e_action"
    /\ \E todo \in {"verbatim", "predict_actions"} :
         CASE todo = "verbatim" ->
                /\ action' = "Ellipsis"
                /\ call' = "-"
                /\ pc' = "e_step"
                /\ UNCHANGED err
           [] todo = "predict_actions" ->
                /\ Halt(NetworkPredictActions, "predict_actions")
                /\ UNCHANGED action
    /\ UNCHANGED <<argVars, memoryVars, netVars, noiseVars, bufferVars,
                   training, trainEp, evalEp, done, start_evaluation>>

\* lines 116-118: env.step(action); done = terminated or truncated
EvalStep ==
    /\ pc = "e_step"
    /\ \E d \in BOOLEAN : done' = d
    /\ call' = "env.step"
    /\ pc' = "e_while"
    /\ UNCHANGED <<err, argVars, memoryVars, netVars, noiseVars, bufferVars,
                   training, trainEp, evalEp, start_evaluation, action>>

----------------------------------------------------------------------------
(* memory_game.tf.py: main *)

\* lines 104-109: defaults for the arguments that are None
PostProcess ==
    /\ pc = "m_post"
    /\ hidden_layer' = IF hidden_layer = None THEN 8 * cards ELSE hidden_layer
    /\ memory_cells' = IF memory_cells = None THEN 2 * cards ELSE memory_cells
    /\ memory_cell_size' = IF memory_cell_size = None THEN (3 * cards) \div 2
                           ELSE memory_cell_size
    /\ call' = "-"
    /\ pc' = "m_assert"
    /\ UNCHANGED <<err, argVars, cards, netVars, noiseVars, bufferVars, loopVars>>

\* line 110: assert sum(env.observation_space.nvec) == args.memory_cell_size
AssertCellSize ==
    /\ pc = "m_assert"
    /\ IF NvecSum(cards) = memory_cell_size
       THEN pc' = "m_construct" /\ call' = "-" /\ UNCHANGED err
       ELSE Halt("AssertionError", "-")
    /\ UNCHANGED <<argVars, memoryVars, netVars, noiseVars, bufferVars, loopVars>>

\* line 113: network = Network(env, args)
ConstructMemoryNetwork ==
    /\ pc = "m_construct"
    /\ \E e \in MemoryNetworkInit(memory_cells, memory_cell_size) : Halt(e, "Network.__init__")
    /\ UNCHANGED <<argVars, memoryVars, netVars, noiseVars, bufferVars, loopVars>>

----------------------------------------------------------------------------
(* OrnsteinUhlenbeckNoise used directly: a caller constructs it, calls     *)
(* sample() and reset() in any order, may keep the array sample() returned *)
(* and may write to the array it kept.                                     *)

\* x = noise.sample()   (the caller may keep x)
CallSample ==
    /\ script = "noise"
    /\ \E n \in [DOMAIN heap[stateRef] -> NormalDraws], keep \in BOOLEAN :
         /\ InRange(NoiseSampled(heap, muRef, stateRef, theta, n))
         /\ heldRef' = IF keep THEN stateRef ELSE heldRef
         /\ heap' = Release(NoiseSample(heap, muRef, stateRef, theta, n),
                            heldRef, {muRef, stateRef, heldRef'})
    /\ call' = "noise.sample"
    /\ UNCHANGED <<pc, err, argVars, memoryVars, netVars, muRef, stateRef, bufferVars, loopVars>>

\* noise.reset()
CallReset ==
    /\ script = "noise"
    /\ LET r == NoiseReset(heap, muRef, stateRef, heldRef)
       IN  heap' = r.heap /\ stateRef' = r.stateRef
    /\ call' = "noise.reset"
    /\ UNCHANGED <<pc, err, argVars, memoryVars, netVars, muRef, heldRef, bufferVars, loopVars>>

\* x[i] = v on the array the caller kept
CallerWrite ==
    /\ script = "noise"
    /\ heldRef # 0
    /\ \E i \in DOMAIN heap[heldRef], v \in Values :
         heap' = [heap EXCEPT ![heldRef][i] = v]
    /\ call' = "write"
    /\ UNCHANGED <<pc, err, argVars, memoryVars, netVars, muRef, stateRef, heldRef,
                   bufferVars, loopVars>>

----------------------------------------------------------------------------
(* Specifications *)

NoHeap == [a \in Addrs |-> <<>>]

InitCommon ==
    /\ err = "none"
    /\ call = "-"
    /\ training = TRUE
    /\ trainEp = 0
    /\ evalEp = 0
    /\ done = FALSE
    /\ start_evaluation = FALSE
    /\ action = "unset"
    /\ buffer = <<>>
    /\ nextId = 0
    /\ batch = <<>>
    /\ heldRef = 0
    /\ online = 0
    /\ target = 0

\* ddpg.py line 155-160: the arguments; those the parser leaves at `...` unless given
InitDDPG ==
    /\ script = "ddpg"
    /\ pc = "construct"
    /\ ctorFilled \in BOOLEAN
    /\ batch_size \in {Ellipsis} \cup 1..MaxBatch
    /\ evaluate_each \in 1..MaxEpisodes
    /\ evaluate_for \in 1..MaxEpisodes
    /\ theta = 1                              \* --noise_theta 0.5
    /\ max_length \in {None, 1, MaxLength}    \* line 108 passes none; line 107 allows one
    /\ mu0 = 0                                \* line 121
    /\ heap = NoHeap /\ muRef = 0 /\ stateRef = 0
    /\ cards = 4 /\ hidden_layer = Ellipsis /\ memory_cells = Ellipsis
    /\ memory_cell_size = Ellipsis

\* memory_game.tf.py lines 17-28, 147: the arguments
InitMemory ==
    /\ script = "memory"
    /\ pc = "m_post"
    /\ cards \in CardCounts
    /\ hidden_layer \in {Ellipsis} \cup HiddenLayers
    /\ memory_cells \in {Ellipsis} \cup MemoryCells
    /\ memory_cell_size \in {Ellipsis} \cup MemoryCellSizes
    /\ ctorFilled = FALSE
    /\ batch_size = Ellipsis /\ evaluate_each = 1 /\ evaluate_for = 1
    /\ theta = 0 /\ max_length = None /\ mu0 = 0
    /\ heap = NoHeap /\ muRef = 0 /\ stateRef = 0

\* OrnsteinUhlenbeckNoise(shape, mu, theta, sigma) constructed
InitNoise ==
    /\ script = "noise"
    /\ pc = "noise"
    /\ mu0 \in -1..1
    /\ theta \in Thetas
    /\ \E shape \in Shapes :
         LET n == NoiseInit(shape, mu0)
         IN  heap = n.heap /\ muRef = n.muRef /\ stateRef = n.stateRef
    /\ ctorFilled = FALSE
    /\ batch_size = Ellipsis /\ evaluate_each = 1 /\ evaluate_for = 1
    /\ max_length = None
    /\ cards = 4 /\ hidden_layer = Ellipsis /\ memory_cells = Ellipsis
    /\ memory_cell_size = Ellipsis

Init == InitCommon /\ (InitDDPG \/ InitMemory)

Next ==
    \/ ConstructNetwork
    \/ CreateBufferAndNoise
    \/ WhileTraining
    \/ TrainFor
    \/ TrainEnvReset
    \/ TrainNoiseReset
    \/ TrainWhile
    \/ TrainAction
    \/ TrainStep
    \/ TrainCheck
    \/ TrainSample
    \/ TrainPerform
    \/ EvalFor
    \/ EvalEnvReset
    \/ EvalWhile
    \/ EvalAction
    \/ EvalStep
    \/ PostProcess
    \/ AssertCellSize
    \/ ConstructMemoryNetwork

Spec == Init /\ [][Next]_vars

\* every step of an episode may be its last, and an episode does end
FairSpec ==
    /\ Spec
    /\ WF_vars(Next)
    /\ SF_vars(TrainStep /\ done')
    /\ SF_vars(EvalStep /\ done')

NextNoise == CallSample \/ CallReset \/ CallerWrite

StartNoise == InitCommon /\ InitNoise

SpecNoise == StartNoise /\ [][NextNoise]_vars

----------------------------------------------------------------------------
(* Properties *)

Last(seq) == seq[Len(seq)]

Prev(id) == (id + IdMod - 1) % IdMod

\* buf holds, oldest first, the Len(buf) transitions appended last before nxt
RecentRun(buf, nxt) ==
    \A i \in 1..Len(buf) : buf[i] = (nxt + IdMod - Len(buf) + i - 1) % IdMod

\* C1: the replay buffer never holds more than its max_length transitions, and it
\* holds exactly the transitions appended last, in order of arrival: what an append
\* to a full buffer drops is the transition appended earliest.
C1_BufferBounded ==
    script = "ddpg" =>
        /\ max_length # None => Len(buffer) <= max_length
        /\ RecentRun(buffer, nextId)

\* C1 witness: a full buffer whose first transition (label 0) has been evicted
C1_Witness ==
    /\ max_length = MaxLength
    /\ Len(buffer) = max_length
    /\ Head(buffer) = 1
    /\ call = "replay_buffer.append"

SampleStepExact ==
    call' = "replay_buffer.sample" =>
       /\ Len(buffer) >= batch_size
       /\ err' = "none"
       /\ Len(batch') = batch_size
       /\ \A i \in 1..Len(batch') : \E j \in 1..Len(buffer) : batch'[i] = buffer[j]
       /\ buffer' = buffer
       /\ nextId' = nextId

\* C2: a step that calls replay_buffer.sample(batch_size) finds at least batch_size
\* transitions in the buffer, binds batch to exactly batch_size transitions, each of
\* them in the buffer, and leaves the buffer as it was.
C2_SampleExact == [][SampleStepExact]_vars

\* C2 witness: a batch has been drawn from a buffer holding more than batch_size
C2_Witness ==
    /\ call = "replay_buffer.sample"
    /\ pc = "t_train"
    /\ Len(batch) = batch_size
    /\ Len(buffer) > batch_size

TauDen == 2
Taus == 0..TauDen

\* (1 - tau) * old_target + tau * online, tau = t / TauDen
EMA(old, new, t) == ((TauDen - t) * old + t * new) \div TauDen

TrainStepEMA ==
    /\ call' = "train" =>
         /\ err' = "none"
         /\ \A t \in Taus : target' = EMA(target, online', t)
    /\ (call' # "train" /\ pc # "construct") => target' = target

\* C3: a call of Network.train returns with every target parameter at
\* (1 - tau) * old_target + tau * online, for every tau in [0, 1]; no other step
\* changes the target parameters.
C3_TargetEMA == [][TrainStepEMA]_vars

\* C4 as stated: a script as given that is stopped by a placeholder is stopped by
\* NotImplementedError, and it has stepped no environment and appended nothing.
C4_OnlyNotImplemented ==
    ~ctorFilled =>
        /\ (pc = "halt" /\ call # "-") => err = "NotImplementedError"
        /\ action = "unset"
        /\ buffer = <<>>

\* C4 amended: the DDPG method placeholders (Network.__init__, train,
\* predict_actions, predict_values) raise NotImplementedError, and DDPG main as given
\* stops with it at the construction of the network, before any environment step or
\* append; memory-game main as given stops at its assertion with AssertionError or
\* inside Network.__init__ with a NameError or a framework error, never with
\* NotImplementedError, and also before any environment step.
C4_Amended ==
    /\ (script = "ddpg" /\ ~ctorFilled) =>
          /\ pc \in {"construct", "halt"}
          /\ pc = "halt" => (err = "NotImplementedError" /\ call = "Network.__init__")
          /\ pc # "halt" => err = "none"
          /\ action = "unset"
          /\ buffer = <<>>
    /\ call \in {"train", "predict_actions", "predict_values"} =>
          (err = "NotImplementedError" /\ pc = "halt")
    /\ script = "memory" =>
          /\ pc \in {"m_post", "m_assert", "m_construct", "halt"}
          /\ pc = "halt" => err \in {"AssertionError", "NameError", "ValueError"}
          /\ pc # "halt" => err = "none"
          /\ (pc = "halt" /\ call = "Network.__init__") => err # "AssertionError"
          /\ action = "unset"

\* C4 witness: DDPG main as given, stopped by its constructor
C4_Witness ==
    /\ script = "ddpg"
    /\ ~ctorFilled
    /\ pc = "halt"
    /\ err = "NotImplementedError"

TrainPCs == {"t_env_reset", "t_noise_reset", "t_while", "t_action", "t_step",
             "t_check", "t_sample", "t_train"}
EvalPCs == {"e_env_reset", "e_while", "e_action", "e_step"}

\* the process has stopped, or the run has reached the bound of the model
Cut == pc = "halt" \/ (max_length = None /\ Len(buffer) >= MaxBuf)

\* the round structure: training episodes number evaluate_each, evaluation episodes
\* evaluate_for
C5_Rounds ==
    script = "ddpg" =>
        /\ pc \in TrainPCs => trainEp < evaluate_each
        /\ pc = "eval_for" => trainEp = evaluate_each
        /\ (pc \in EvalPCs /\ ~start_evaluation) =>
              (trainEp = evaluate_each /\ evalEp < evaluate_for)
        /\ (pc = "train_for" /\ trainEp = 0 /\ buffer # <<>>) => evalEp = evaluate_for

\* C5: the loop runs rounds of exactly evaluate_each training episodes and exactly
\* evaluate_for evaluation episodes, and, every episode ending, it eventually leaves
\* the rounds and runs the final evaluation (start_evaluation = True).
C5_ReachesFinal == []C5_Rounds /\ <>(start_evaluation \/ Cut)

\* C6: mu stays the mean given at construction whatever is sampled, reset or written
\* through an array sample() returned, and right after reset() state equals mu
\* elementwise.
C6_ResetToMean ==
    script = "noise" =>
        /\ heap[muRef] = Ones(Len(heap[muRef]), mu0)
        /\ call = "noise.reset" => heap[stateRef] = Ones(Len(heap[muRef]), mu0)

\* C6 witness: reset() has run while the caller keeps an array that sample() returned
\* and that differs from the mean
C6_Witness ==
    /\ script = "noise"
    /\ call = "noise.reset"
    /\ heldRef # 0
    /\ heap[heldRef] # heap[muRef]
    /\ Len(heap[muRef]) = 2

\* C7: when memory-game main reaches its assertion, each of hidden_layer,
\* memory_cells and memory_cell_size is the value given on the command line or,
\* none given, the default 8*cards, 2*cards, 3*cards//2.
C7_Defaults ==
    (script = "memory" /\ pc = "m_assert") =>
        /\ hidden_layer \in HiddenLayers \cup {8 * cards}
        /\ memory_cells \in MemoryCells \cup {2 * cards}
        /\ memory_cell_size \in MemoryCellSizes \cup {(3 * cards) \div 2}

NoiseResetStep ==
    /\ pc = "t_env_reset" => pc' = "t_noise_reset"
    /\ pc = "t_noise_reset" =>
         /\ call' = "noise.reset"
         /\ pc' = "t_while"
         /\ heap'[stateRef'] = Ones(1, mu0)
         /\ heap'[muRef'] = Ones(1, mu0)
    /\ call' = "noise.reset" => pc = "t_noise_reset"
    /\ pc' = "t_action" => pc = "t_while"
    /\ pc' = "t_step" => pc = "t_action"

\* C8: in the training loop env.reset() of a training episode is followed by
\* noise.reset(), which leaves the noise state at the mean, before the episode's first
\* action and step; noise.reset() is called by no other step of the loop.
C8_NoiseResetPerEpisode == [][NoiseResetStep]_vars

\* C8 witness: a later training episode starts with the noise state back at the mean
C8_Witness ==
    /\ call = "noise.reset"
    /\ pc = "t_while"
    /\ trainEp >= 1
    /\ buffer # <<>>
    /\ heap[stateRef] = Ones(1, mu0)

\* C9: at the size test the transition of the step is already the newest of the
\* buffer; a batch is sampled and the network methods are called only with at least
\* 4 * batch_size transitions in the buffer; once a batch has been sampled the buffer
\* never again holds fewer, so every later training step samples too.
C9_WarmupGate ==
    (script = "ddpg" /\ batch_size # Ellipsis) =>
        /\ pc = "t_check" =>
              /\ call = "replay_buffer.append"
              /\ buffer # <<>>
              /\ Last(buffer) = Prev(nextId)
        /\ pc \in {"t_sample", "t_train"} => Len(buffer) >= 4 * batch_size
        /\ call \in {"replay_buffer.sample", "train", "predict_values"} =>
              Len(buffer) >= 4 * batch_size
        /\ batch # <<>> => Len(buffer) >= 4 * batch_size

\* C9 witness: a training step of a later episode, after a batch has been sampled
C9_Witness ==
    /\ pc = "t_check"
    /\ batch # <<>>
    /\ trainEp >= 1
    /\ Len(buffer) >= 4 * batch_size

EvaluationStepReadOnly ==
    pc \in EvalPCs =>
       /\ UNCHANGED <<buffer, nextId, batch, heap, muRef, stateRef, online, target>>
       /\ call' \notin {"noise.sample", "noise.reset", "replay_buffer.append",
                        "replay_buffer.sample", "train"}

\* C10: a step of an evaluation episode changes neither the replay buffer, nor the
\* sampled batch, nor the noise arrays, nor the network parameters, and calls none of
\* noise.sample, noise.reset, replay_buffer.append, replay_buffer.sample, train.
C10_EvaluationReadOnly == [][EvaluationStepReadOnly]_vars

\* C10 witness: an evaluation episode steps the environment while the buffer holds
\* transitions and the noise state is off its mean
C10_Witness ==
    /\ pc = "e_while"
    /\ call = "env.step"
    /\ evalEp >= 1
    /\ buffer # <<>>
    /\ heap[stateRef] # heap[muRef]

====
